---- MODULE Spec2Model ----
(***************************************************************************)
(* A model of the ingestion pipeline of retail-ops-intelligence:           *)
(* ingestion/pipeline.py (validators, quarantine_file, process_file,       *)
(* run_pipeline) and ingestion/contracts.py (DataContract).                *)
(*                                                                         *)
(* A CSV cell is the text between two commas.  Numbers are kept in         *)
(* hundredths, so that the discount range [0, 1] is 0..100.                *)
(***************************************************************************)
EXTENDS Integers, Sequences, FiniteSets, TLC

\* ------------------------------------------------------------- bounds
\* Largest number of rows of a dataset given to a validator on its own.
MaxRows == 2
\* Number of runs of run_pipeline in one behaviour.
MaxRuns == 2
\* Number of times the environment interferes in one behaviour: a
\* file-system call that fails, an input file written or deleted.
MaxEnv == 1

\* ------------------------------------------------------------- tables
\* files_to_process of run_pipeline, in order.
files_to_process ==
    << [filename |-> "stores.csv",              data_type |-> "stores"],
       [filename |-> "daily_sales.csv",         data_type |-> "sales"],
       [filename |-> "inventory_snapshots.csv", data_type |-> "inventory"],
       [filename |-> "promotions.csv",          data_type |-> "promotions"] >>

FileNames == { files_to_process[i].filename : i \in DOMAIN files_to_process }

DataTypes == { files_to_process[i].data_type : i \in DOMAIN files_to_process }

DataTypeOf(filename) ==
    files_to_process[CHOOSE i \in DOMAIN files_to_process :
                        files_to_process[i].filename = filename].data_type

\* DataContract.SCHEMAS: the required columns of each data type.
RequiredColumns(data_type) ==
    CASE data_type = "promotions" ->
            << "promotion_id", "store_id", "start_date", "end_date",
               "discount_pct", "promotion_type" >>
      [] data_type = "sales"      -> << "date", "store_id", "total_sales" >>
      [] data_type = "inventory"  -> << "date", "store_id" >>
      [] data_type = "stores"     -> << "store_id", "store_name", "region" >>
      [] OTHER                    -> << >>

\* DataContract.SCHEMAS: the columns that carry a business rule.
BusinessRuleColumns(data_type) ==
    CASE data_type = "promotions" -> << "discount_pct" >>
      [] data_type = "sales"      -> << "total_sales" >>
      [] OTHER                    -> << >>

\* ------------------------------------------------------------- cells
\* The cell texts the model draws from.
NumericCells == { "0", "0.3", "1", "1.5", "-0.2", "1000", "-500", "2000" }

TextCells == { "abc" }

EmptyCell == ""

Cells == NumericCells \cup TextCells \cup { EmptyCell }

\* The number a numeric cell text denotes, in hundredths.
CellNumber(c) ==
    CASE c = "0"    -> 0
      [] c = "0.3"  -> 30
      [] c = "1"    -> 100
      [] c = "1.5"  -> 150
      [] c = "-0.2" -> -20
      [] c = "1000" -> 100000
      [] c = "-500" -> -50000
      [] c = "2000" -> 200000

\* A value of a loaded column: a number, NaN (a missing value) or a string.
NumVal(v) == [kind |-> "num", v |-> v, s |-> ""]

NaN == [kind |-> "nan", v |-> 0, s |-> ""]

StrVal(s) == [kind |-> "str", v |-> 0, s |-> s]

\* pd.to_numeric(errors='coerce') on one value: text that is no number
\* becomes NaN.
ToNumeric(x) ==
    CASE x.kind = "num" -> x
      [] x.kind = "nan" -> NaN
      [] x.kind = "str" -> IF x.s \in NumericCells THEN NumVal(CellNumber(x.s))
                           ELSE NaN

\* Series.between(lo, hi), inclusive: a comparison with NaN is False.
Between(x, lo, hi) == x.kind = "num" /\ lo <= x.v /\ x.v <= hi

\* ------------------------------------------------------------- datasets
\* The content of a file: a CSV text with its header and its rows, each a
\* function from the header's columns to cell texts, or bytes pd.read_csv
\* cannot parse.
Unparseable == [kind |-> "garbage", cols |-> {}, rows |-> << >>]

Csv(cols, rows) == [kind |-> "csv", cols |-> cols, rows |-> rows]

\* The cells of column col, top to bottom.
ColumnCells(d, col) == [i \in DOMAIN d.rows |-> d.rows[i][col]]

\* pd.read_csv's type inference for one column: a column of numbers and
\* empty cells loads as floats with NaN; any other text makes it an object
\* column whose cells stay strings.
LoadColumn(cells) ==
    IF \A i \in DOMAIN cells : cells[i] \in NumericCells \cup { EmptyCell }
    THEN [i \in DOMAIN cells |->
            IF cells[i] = EmptyCell THEN NaN ELSE NumVal(CellNumber(cells[i]))]
    ELSE [i \in DOMAIN cells |->
            IF cells[i] = EmptyCell THEN NaN ELSE StrVal(cells[i])]

\* The DataFrame pd.read_csv builds from a parseable file.
ReadCsv(d) ==
    [columns |-> d.cols,
     len     |-> Len(d.rows),
     col     |-> [c \in d.cols |-> LoadColumn(ColumnCells(d, c))]]

\* ------------------------------------------------------------- messages
\* An error message: its fixed text and, for the counting messages, the
\* count formatted into it (0 for a message without a count).
Msg(text) == [text |-> text, n |-> 0, cols |-> << >>]

CountMsg(text, n) == [text |-> text, n |-> n, cols |-> << >>]

\* A message that formats a list of column names.
ColsMsg(text, cols) == [text |-> text, n |-> 0, cols |-> cols]

PipelineDriftMsg == Msg("SCHEMA DRIFT: Expected 'discount_pct' column not found")

ContractDriftMsg ==
    Msg("SCHEMA DRIFT DETECTED: discount_pct column missing. Pipeline stopped to protect data trust. Contact upstream team to resolve column name change.")

\* The number of indices of a sequence of values that satisfy Bad.
CountIf(vals, Bad(_)) == Cardinality({ i \in DOMAIN vals : Bad(vals[i]) })

\* [col for col in required_columns if col not in df.columns].
RECURSIVE MissingColumns(_, _)
MissingColumns(required_columns, columns) ==
    IF required_columns = << >> THEN << >>
    ELSE (IF Head(required_columns) \notin columns
          THEN << Head(required_columns) >> ELSE << >>)
         \o MissingColumns(Tail(required_columns), columns)

\* ------------------------------------------------------------- validators
\* validate_promotions without its required-column check.
validate_promotions_unchecked(df) ==
    IF "discount_pct" \notin df.columns
    THEN [is_valid |-> TRUE, errors |-> << >>, df |-> df]
    ELSE LET coerced == [i \in DOMAIN df.col["discount_pct"] |->
                            ToNumeric(df.col["discount_pct"][i])]
             invalid == CountIf(coerced, LAMBDA x : ~Between(x, 0, 100))
             errors  == IF invalid > 0
                        THEN << CountMsg("Found {n} invalid discount values (not between 0-1)", invalid) >>
                        ELSE << >>
         IN [is_valid |-> errors = << >>,
             errors   |-> errors,
             df       |-> [df EXCEPT !.col["discount_pct"] = coerced]]

\* validate_promotions: the drift message when discount_pct is absent;
\* otherwise the column is coerced to numbers in place and every value for
\* which between(0, 1) is False is counted.  df is the frame after the call.
validate_promotions(df) ==
    IF "discount_pct" \notin df.columns
    THEN [is_valid |-> FALSE, errors |-> << PipelineDriftMsg >>, df |-> df]
    ELSE LET coerced == [i \in DOMAIN df.col["discount_pct"] |->
                            ToNumeric(df.col["discount_pct"][i])]
             invalid == CountIf(coerced, LAMBDA x : ~Between(x, 0, 100))
             errors  == IF invalid > 0
                        THEN << CountMsg("Found {n} invalid discount values (not between 0-1)", invalid) >>
                        ELSE << >>
         IN [is_valid |-> errors = << >>,
             errors   |-> errors,
             df       |-> [df EXCEPT !.col["discount_pct"] = coerced]]

\* series < 0 raises TypeError on an object column that holds strings.
Comparable(vals) == \A i \in DOMAIN vals : vals[i].kind # "str"

TypeErrorText == "'<' not supported between instances of 'str' and 'int'"

\* A comparison that also takes zero.
NonPositive(x) == x.kind = "num" /\ x.v <= 0

Negative(x) == x.kind = "num" /\ x.v < 0

\* validate_sales: counts the rows below zero of total_sales and of
\* transaction_count, each only when the column is there.  raised tells
\* that a comparison raised instead of returning.
validate_sales(df) ==
    LET has(c)   == c \in df.columns
        bad(c)   == has(c) /\ ~Comparable(df.col[c])
        count(c) == IF has(c) THEN CountIf(df.col[c], Negative) ELSE 0
        e1 == IF count("total_sales") > 0
              THEN << CountMsg("Found {n} records with negative sales",
                               count("total_sales")) >>
              ELSE << >>
        e2 == IF count("transaction_count") > 0
              THEN << CountMsg("Found {n} records with negative transaction count",
                               count("transaction_count")) >>
              ELSE << >>
    IN IF bad("total_sales") \/ bad("transaction_count")
       THEN [raised |-> TRUE, exc |-> TypeErrorText,
             is_valid |-> FALSE, errors |-> << >>]
       ELSE [raised |-> FALSE, exc |-> "",
             is_valid |-> (e1 \o e2) = << >>, errors |-> e1 \o e2]

\* The business rules of DataContract.SCHEMAS: discount_pct within [0, 1],
\* total_sales >= 0.  A comparison with NaN is False.
RuleHolds(column, x) ==
    CASE column = "discount_pct" -> Between(x, 0, 100)
      [] column = "total_sales"  -> x.kind = "num" /\ x.v >= 0

\* The errors DataContract.validate appends for the rules of columns, in
\* order: a violation count, or the caught exception of a rule that raised.
RECURSIVE RuleErrors(_, _)
RuleErrors(df, columns) ==
    IF columns = << >> THEN << >>
    ELSE LET column == Head(columns)
             rest   == RuleErrors(df, Tail(columns))
         IN IF column \notin df.columns THEN rest
            ELSE IF ~Comparable(df.col[column])
            THEN << Msg("Error checking rule for {column}: {e}") >> \o rest
            ELSE LET violations ==
                        CountIf(df.col[column], LAMBDA x : ~RuleHolds(column, x))
                 IN IF violations > 0
                    THEN << CountMsg("Business rule violation in {column}: {n} records failed",
                                     violations) >> \o rest
                    ELSE rest

\* A validate that has the dedicated message for every data type.
ContractValidateDriftForAll(data_type, df) ==
    LET required == RequiredColumns(data_type)
        missing_columns == MissingColumns(required, df.columns)
        e1 == IF missing_columns # << >>
              THEN << ColsMsg("Missing required columns: {missing_columns}",
                              missing_columns) >>
                   \o (IF "discount_pct" \notin df.columns
                       THEN << ContractDriftMsg >> ELSE << >>)
              ELSE << >>
        errors == e1 \o RuleErrors(df, BusinessRuleColumns(data_type))
    IN [is_valid |-> errors = << >>, errors |-> errors]

\* DataContract(data_type).validate(df).
ContractValidate(data_type, df) ==
    LET required == RequiredColumns(data_type)
        missing_columns == MissingColumns(required, df.columns)
        e1 == IF missing_columns # << >>
              THEN << ColsMsg("Missing required columns: {missing_columns}",
                              missing_columns) >>
                   \o (IF data_type = "promotions"
                          /\ \E i \in DOMAIN missing_columns :
                                missing_columns[i] = "discount_pct"
                       THEN << ContractDriftMsg >> ELSE << >>)
              ELSE << >>
        errors == e1 \o RuleErrors(df, BusinessRuleColumns(data_type))
    IN [is_valid |-> errors = << >>, errors |-> errors]

\* ------------------------------------------------------------- file system
\* No file at a path.
NoFile == [kind |-> "absent", cols |-> {}, rows |-> << >>]

\* What a write that failed after the file was opened leaves behind.
Truncated == [kind |-> "truncated", cols |-> {}, rows |-> << >>]

\* A directory: the files in it by name.  At is the file at a name, Put
\* the directory after a file was written (or overwritten) at a name.
At(dir, name) == IF name \in DOMAIN dir THEN dir[name] ELSE NoFile

Put(dir, name, file) ==
    [x \in DOMAIN dir \cup { name } |-> IF x = name THEN file ELSE dir[x]]

EmptyDir == << >>

\* A path as the results report it: the input file of data_dir, its
\* validated copy, or a file of data/quarantine stamped ts.
InputPath(filename) == [dir |-> "data", ts |-> 0, name |-> filename, tag |-> ""]

\* filepath.replace('.csv', '_validated.csv').
ValidatedPath(filename) ==
    [dir |-> "data", ts |-> 0, name |-> filename, tag |-> "_validated"]

\* os.path.join(quarantine_dir, f"{timestamp}_{filename}").
QuarantinePath(ts, filename) ==
    [dir |-> "data/quarantine", ts |-> ts, name |-> filename, tag |-> ""]

\* The outcomes of the file-system calls of one process_file call:
\* os.makedirs and shutil.move succeed or raise; a write succeeds, raises
\* before the file is opened, or raises after it was opened.
WriteOutcomes == { "ok", "fail", "truncated" }

IO == [makedirs : BOOLEAN, move : BOOLEAN,
       sidecar : WriteOutcomes, to_csv : WriteOutcomes]

\* The number of failing calls of io.
Faults(io) ==
    (IF io.makedirs THEN 0 ELSE 1) + (IF io.move THEN 0 ELSE 1)
    + (IF io.sidecar = "ok" THEN 0 ELSE 1) + (IF io.to_csv = "ok" THEN 0 ELSE 1)

\* An except branch that returns the path it meant to move the file to.
QuarantineExceptReturnsTarget(fs, filepath, quarantine_path) ==
    [fs |-> fs, path |-> quarantine_path]

\* The except branch of quarantine_file: whatever was done before the
\* exception stays done, and the original path is returned.
QuarantineExcept(fs, filepath, quarantine_path) == [fs |-> fs, path |-> filepath]

\* A quarantine_file that copies the file and leaves it where it was.
QuarantineCopies(fs, filename, errors, io, now) ==
    LET filepath        == InputPath(filename)
        quarantine_path == QuarantinePath(now, filename)
        q               == << now, filename >>
        moved == [fs EXCEPT !.quarantine = Put(fs.quarantine, q, fs.data[filename])]
        record == [kind            |-> "json",
                   original_path   |-> filepath,
                   quarantine_path |-> quarantine_path,
                   timestamp       |-> now,
                   errors          |-> errors]
    IN IF ~io.makedirs
       THEN QuarantineExcept(fs, filepath, quarantine_path)
       ELSE IF fs.data[filename] = NoFile \/ ~io.move
       THEN QuarantineExcept(fs, filepath, quarantine_path)
       ELSE CASE io.sidecar = "ok" ->
                    [fs   |-> [moved EXCEPT !.sidecars = Put(moved.sidecars, q, record)],
                     path |-> quarantine_path]
              [] io.sidecar = "truncated" ->
                    QuarantineExcept(
                        [moved EXCEPT !.sidecars = Put(moved.sidecars, q, Truncated)],
                        filepath, quarantine_path)
              [] io.sidecar = "fail" ->
                    QuarantineExcept(moved, filepath, quarantine_path)

\* quarantine_file(filepath, errors) at time now on file system fs: the
\* file system afterwards and the path returned.
quarantine_file(fs, filename, errors, io, now) ==
    LET filepath        == InputPath(filename)
        quarantine_path == QuarantinePath(now, filename)
        q               == << now, filename >>
        moved == [fs EXCEPT !.quarantine = Put(fs.quarantine, q, fs.data[filename]),
                            !.data[filename] = NoFile]
        record == [kind            |-> "json",
                   original_path   |-> filepath,
                   quarantine_path |-> quarantine_path,
                   timestamp       |-> now,
                   errors          |-> errors]
    IN IF ~io.makedirs
       THEN QuarantineExcept(fs, filepath, quarantine_path)
       ELSE IF fs.data[filename] = NoFile \/ ~io.move
       THEN QuarantineExcept(fs, filepath, quarantine_path)
       ELSE CASE io.sidecar = "ok" ->
                    [fs   |-> [moved EXCEPT !.sidecars = Put(moved.sidecars, q, record)],
                     path |-> quarantine_path]
              [] io.sidecar = "truncated" ->
                    QuarantineExcept(
                        [moved EXCEPT !.sidecars = Put(moved.sidecars, q, Truncated)],
                        filepath, quarantine_path)
              [] io.sidecar = "fail" ->
                    QuarantineExcept(moved, filepath, quarantine_path)

\* The (is_valid, errors) process_file gets for data_type, the frame after
\* validation and whether validation raised.
Validate(data_type, df) ==
    CASE data_type = "promotions" ->
            LET v == validate_promotions(df)
            IN [raised |-> FALSE, exc |-> "", is_valid |-> v.is_valid,
                errors |-> v.errors, df |-> v.df]
      [] data_type = "sales" ->
            LET v == validate_sales(df)
            IN [raised |-> v.raised, exc |-> v.exc, is_valid |-> v.is_valid,
                errors |-> v.errors, df |-> df]
      [] OTHER ->
            [raised |-> FALSE, exc |-> "", is_valid |-> TRUE,
             errors |-> << >>, df |-> df]

\* An except branch that reports the exception as a validation failure.
ProcessErrorAsFailed(fs, filename, exc, io, now) ==
    LET q == quarantine_file(fs, filename, << Msg(exc) >>, io, now)
    IN [fs     |-> q.fs,
        result |-> [status |-> "failed", reason |-> "validation_failed",
                    errors |-> << Msg(exc) >>, quarantine_path |-> q.path]]

\* The except branch of process_file: quarantine with the exception text
\* as the only error, status 'error'.
ProcessError(fs, filename, exc, io, now) ==
    LET q == quarantine_file(fs, filename, << Msg(exc) >>, io, now)
    IN [fs     |-> q.fs,
        result |-> [status |-> "error", reason |-> exc,
                    quarantine_path |-> q.path]]

\* process_file(filepath, data_type) at time now on file system fs: the
\* file system afterwards and the result returned.
process_file(fs, filename, data_type, io, now) ==
    LET file == fs.data[filename]
    IN IF file = NoFile
       THEN ProcessError(fs, filename, "FileNotFoundError", io, now)
       ELSE IF file.kind # "csv"
       THEN ProcessError(fs, filename, "ParserError", io, now)
       ELSE
       LET df == ReadCsv(file)
           v  == Validate(data_type, df)
       IN IF v.raised
          THEN ProcessError(fs, filename, v.exc, io, now)
          ELSE IF ~v.is_valid
          THEN LET q == quarantine_file(fs, filename, v.errors, io, now)
               IN [fs     |-> q.fs,
                   result |-> [status |-> "failed",
                               reason |-> "validation_failed",
                               errors |-> v.errors,
                               quarantine_path |-> q.path]]
          ELSE
          LET stamped == [kind |-> "validated", df |-> v.df, ingested_at |-> now, batch_id |-> now]
          IN CASE io.to_csv = "ok" ->
                    [fs     |-> [fs EXCEPT !.validated[filename] = stamped],
                     result |-> [status |-> "success",
                                 records |-> df.len,
                                 validated_path |-> ValidatedPath(filename)]]
               [] io.to_csv = "truncated" ->
                    ProcessError([fs EXCEPT !.validated[filename] = Truncated],
                                 filename, "OSError", io, now)
               [] io.to_csv = "fail" ->
                    ProcessError(fs, filename, "OSError", io, now)

\* ------------------------------------------------------------- inputs
Row1(c1, v1) == [c \in { c1 } |-> v1]

\* The contents an input file of each data type is drawn from.
Inputs(data_type) ==
    CASE data_type = "stores" ->
            { Csv({ "store_id", "store_name", "region" },
                  << [c \in { "store_id", "store_name", "region" } |-> "1"] >>),
              Csv({ "store_id" }, << Row1("store_id", "1") >>) }
      [] data_type = "sales" ->
            { Csv({ "total_sales" },
                  << Row1("total_sales", "1000"), Row1("total_sales", "2000") >>),
              Csv({ "total_sales" },
                  << Row1("total_sales", "1000"), Row1("total_sales", "-500") >>),
              Csv({ "total_sales" }, << Row1("total_sales", "abc") >>) }
      [] data_type = "inventory" ->
            { Csv({ "store_id" },
                  << Row1("store_id", "1"), Row1("store_id", "1") >>),
              Unparseable }
      [] data_type = "promotions" ->
            { Csv({ "discount_pct" }, << Row1("discount_pct", "0.3") >>),
              Csv({ "discount_percent" }, << Row1("discount_percent", "0.3") >>),
              Csv({ "discount_pct" }, << Row1("discount_pct", "1.5") >>) }

\* What each input file is at the start: two choices for each.
InitialInputs(data_type) ==
    CASE data_type = "stores" ->
            { Csv({ "store_id", "store_name", "region" },
                  << [c \in { "store_id", "store_name", "region" } |-> "1"] >>),
              NoFile }
      [] data_type = "sales" ->
            { Csv({ "total_sales" },
                  << Row1("total_sales", "1000"), Row1("total_sales", "2000") >>),
              Csv({ "total_sales" },
                  << Row1("total_sales", "1000"), Row1("total_sales", "-500") >>) }
      [] data_type = "inventory" ->
            { Csv({ "store_id" },
                  << Row1("store_id", "1"), Row1("store_id", "1") >>),
              Unparseable }
      [] data_type = "promotions" ->
            { Csv({ "discount_pct" }, << Row1("discount_pct", "0.3") >>),
              Csv({ "discount_percent" }, << Row1("discount_percent", "0.3") >>) }

\* ------------------------------------------------------------- state
VARIABLES
    fs,             \* the files: data_dir, validated copies, data/quarantine
    clock,          \* the last value datetime.now() gave, in seconds
    pc,             \* where run_pipeline is: idle, loop, summary
    idx,            \* the index in files_to_process of the loop
    results,        \* results of run_pipeline, filename -> result
    total_records,  \* total_records of run_pipeline
    summary_doc,    \* logs/pipeline_summary.json
    runs,           \* how many times run_pipeline was started
    env,            \* how many times the environment interfered
    found,          \* what the last process_file call found at filepath
    vin,            \* a validator called on its own: data type and file
    vout,           \* what the validators returned for vin
    prev,           \* the run before: its results, data_dir when it ended
    r2,             \* a second runner: its position, results, total_records
    shown           \* the pipeline metric the dashboard rendered last

vars == << fs, clock, pc, idx, results, total_records, summary_doc, runs, env,
           found, vin, vout, prev, r2, shown >>

\* No validator call.
NoCall == [data_type |-> "none", file |-> NoFile]

NoVerdict == [done |-> FALSE]

\* A filename without a result yet.
NoResult == [status |-> "none"]

\* No run before.
NoPrev == [results |-> [f \in FileNames |-> NoResult],
           data    |-> [f \in FileNames |-> NoFile]]

\* The second runner before it was started.
NoRunner ==
    [pc |-> "idle", idx |-> 1, results |-> [f \in FileNames |-> NoResult],
     total_records |-> 0, loaded |-> NoFile, runs |-> 0]

\* Nothing rendered yet.
NotShown == [done |-> FALSE]

\* The input files a behaviour starts with: each one absent or one of the
\* contents of its data type.
InitialData ==
    { d \in [FileNames -> UNION { InitialInputs(t) : t \in DataTypes }] :
        \A f \in FileNames : d[f] \in InitialInputs(DataTypeOf(f)) }

Init ==
    /\ \E d \in InitialData :
         fs = [data       |-> d,
               validated  |-> [f \in FileNames |-> NoFile],
               quarantine |-> EmptyDir,
               sidecars   |-> EmptyDir]
    /\ clock = 0
    /\ pc = "idle"
    /\ idx = 1
    /\ results = [f \in FileNames |-> NoResult]
    /\ total_records = 0
    /\ summary_doc = NoFile
    /\ runs = 0
    /\ env = 0
    /\ found = NoFile
    /\ vin = NoCall
    /\ vout = NoVerdict
    /\ prev = NoPrev
    /\ r2 = NoRunner
    /\ shown = NotShown

\* A run that starts with the total of the run before.
StartRunKeepsTotal ==
    /\ pc = "idle"
    /\ runs < MaxRuns
    /\ runs' = runs + 1
    /\ results' = [f \in FileNames |-> NoResult]
    /\ idx' = 1
    /\ pc' = "loop"
    /\ clock' \in IF runs = 0 THEN { clock } ELSE { clock, clock + 1 }
    /\ UNCHANGED << fs, summary_doc, env, found, total_records, vin, vout, prev, r2, shown >>

\* run_pipeline up to the loop: results = {}, total_records = 0.  Time is
\* counted from the first run; a later run begins in the second the last
\* one ended in or in a later one, and only whether two stamps are equal
\* matters, so the clock moves by at most one.
StartRun ==
    /\ pc = "idle"
    /\ runs < MaxRuns
    /\ runs' = runs + 1
    /\ results' = [f \in FileNames |-> NoResult]
    /\ total_records' = 0
    /\ idx' = 1
    /\ pc' = "loop"
    /\ clock' \in IF runs = 0 THEN { clock } ELSE { clock, clock + 1 }
    /\ UNCHANGED << fs, summary_doc, env, found, vin, vout, prev, r2, shown >>

\* A loop that stops one file early.
AfterFileSkipsLast(i) == IF i >= Len(files_to_process) - 1 THEN "summary" ELSE "loop"

\* Where the loop goes after the file at index i.
AfterFile(i) == IF i = Len(files_to_process) THEN "summary" ELSE "loop"

NextIdx(i) == IF i = Len(files_to_process) THEN i ELSE i + 1

\* datetime.now() within a run.  The model takes a run to be over within
\* the second it began: every stamp of a run carries that second.
Now == { clock }

\* if result['status'] == 'success': total_records += result['records'].
AddRecords(total, result) ==
    IF result.status = "success" THEN total + result.records ELSE total

\* The else branch of the loop body: the file is not under data_dir.
Skip ==
    /\ results' = [results EXCEPT ![files_to_process[idx].filename] =
                      [status |-> "skipped", reason |-> "file_not_found"]]
    /\ UNCHANGED << fs, clock, total_records, env, found >>

\* A then branch whose process_file call takes the input file away.
ProcessConsumes(vanish) ==
    \E io \in IO, now \in Now :
        LET filename == files_to_process[idx].filename
            seen == IF vanish THEN [fs EXCEPT !.data[filename] = NoFile] ELSE fs
            cost == Faults(io) + (IF vanish THEN 1 ELSE 0)
            p == process_file(seen, filename, files_to_process[idx].data_type,
                              io, now)
        IN /\ env + cost <= MaxEnv
           /\ env' = env + cost
           /\ clock' = now
           /\ found' = seen.data[filename]
           /\ fs' = [p.fs EXCEPT !.data[filename] = NoFile]
           /\ results' = [results EXCEPT ![filename] = p.result]
           /\ total_records' = AddRecords(total_records, p.result)

\* The then branch of the loop body: process_file, results[filename] =
\* result, and total_records += result['records'] on success.  vanish
\* tells that the file was deleted after os.path.exists saw it and before
\* process_file read it.
Process(vanish) ==
    \E io \in IO, now \in Now :
        LET filename == files_to_process[idx].filename
            seen == IF vanish THEN [fs EXCEPT !.data[filename] = NoFile] ELSE fs
            cost == Faults(io) + (IF vanish THEN 1 ELSE 0)
            p == process_file(seen, filename, files_to_process[idx].data_type,
                              io, now)
        IN /\ env + cost <= MaxEnv
           /\ env' = env + cost
           /\ clock' = now
           /\ found' = seen.data[filename]
           /\ fs' = p.fs
           /\ results' = [results EXCEPT ![filename] = p.result]
           /\ total_records' = AddRecords(total_records, p.result)

\* A loop body that calls process_file without looking for the file first.
LoopBodyWithoutExistsCheck ==
    /\ pc = "loop"
    /\ Process(FALSE)
    /\ pc' = AfterFile(idx)
    /\ idx' = NextIdx(idx)
    /\ UNCHANGED << summary_doc, runs, vin, vout, prev, r2, shown >>

\* One iteration of the loop of run_pipeline.
LoopBody ==
    /\ pc = "loop"
    /\ IF fs.data[files_to_process[idx].filename] # NoFile
       THEN \E vanish \in BOOLEAN : Process(vanish)
       ELSE Skip
    /\ pc' = AfterFile(idx)
    /\ idx' = NextIdx(idx)
    /\ UNCHANGED << summary_doc, runs, vin, vout, prev, r2, shown >>

\* The summary run_pipeline builds after the loop (duration_seconds, which
\* nothing reads back, is left out).
Summary(now) ==
    [kind              |-> "json",
     timestamp         |-> now,
     files_processed   |-> Cardinality({ f \in FileNames :
                                           results[f].status = "success" }),
     records_processed |-> total_records,
     results           |-> results]

\* The end of run_pipeline: the summary is written to
\* logs/pipeline_summary.json and returned; a write that fails raises out
\* of run_pipeline, which then returns nothing.
WriteSummary ==
    /\ pc = "summary"
    /\ \E w \in WriteOutcomes, now \in Now :
         /\ clock' = now
         /\ CASE w = "ok" ->
                  /\ summary_doc' = Summary(now)
                  /\ UNCHANGED env
             [] w = "truncated" ->
                  /\ env < MaxEnv
                  /\ summary_doc' = Truncated
                  /\ env' = env + 1
             [] w = "fail" ->
                  /\ env < MaxEnv
                  /\ UNCHANGED summary_doc
                  /\ env' = env + 1
    /\ pc' = "idle"
    /\ prev' = [results |-> results, data |-> fs.data]
    /\ UNCHANGED << fs, idx, results, total_records, runs, found, vin, vout, r2, shown >>

\* Between two runs the upstream producer writes an input file into
\* data_dir.
Supply ==
    /\ pc = "idle"
    /\ env < MaxEnv
    /\ \E f \in FileNames : \E d \in Inputs(DataTypeOf(f)) :
         /\ fs.data[f] = NoFile
         /\ fs' = [fs EXCEPT !.data[f] = d]
    /\ env' = env + 1
    /\ UNCHANGED << clock, pc, idx, results, total_records, summary_doc, runs,
                    found, vin, vout, prev, r2, shown >>

Next ==
    \/ StartRun
    \/ LoopBody
    \/ WriteSummary
    \/ Supply

Spec == Init /\ [][Next]_vars

\* ------------------------------------------------------------- two runners
\* A second run_pipeline on the same data_dir, running while the first
\* does.  Its loop body is taken in two steps, so that the other runner can
\* act between the moment it has read a file and the moment it quarantines
\* or copies it: Load2 is os.path.exists and pd.read_csv, Act2 the rest of
\* process_file.  Both runners count in runs.  Either the first runner is
\* alone and makes every run, or each of the two makes one run: at the
\* same time, or one after the other.
File2 == files_to_process[r2.idx].filename

StartRun2 ==
    /\ r2.pc = "idle"
    /\ r2.runs = 0
    /\ runs <= 1
    /\ runs < MaxRuns
    /\ runs' = runs + 1
    /\ r2' = [pc |-> "load", idx |-> 1,
              results |-> [f \in FileNames |-> NoResult],
              total_records |-> 0, loaded |-> NoFile, runs |-> r2.runs + 1]
    /\ UNCHANGED << fs, clock, pc, idx, results, total_records, summary_doc,
                    env, found, vin, vout, prev, shown >>

\* The second runner after the file at its index got result.
Advance2(result) ==
    [r2 EXCEPT !.results[File2] = result,
               !.total_records = AddRecords(r2.total_records, result),
               !.pc = IF AfterFile(r2.idx) = "summary" THEN "summary" ELSE "load",
               !.idx = NextIdx(r2.idx),
               !.loaded = NoFile]

\* os.path.exists(filepath), then either 'skipped' or pd.read_csv.
Load2 ==
    /\ r2.pc = "load"
    /\ IF fs.data[File2] = NoFile
       THEN r2' = Advance2([status |-> "skipped", reason |-> "file_not_found"])
       ELSE r2' = [r2 EXCEPT !.pc = "act", !.loaded = fs.data[File2]]
    /\ UNCHANGED << fs, clock, pc, idx, results, total_records, summary_doc,
                    runs, env, found, vin, vout, prev, shown >>

\* process_file from validation on, on the frame read by Load2.  When the
\* file has left filepath in between, shutil.move raises; when another
\* file is there by now, that file is the one moved.
Act2 ==
    /\ r2.pc = "act"
    /\ \E io \in IO, now \in Now :
         LET actual == fs.data[File2]
             believed == [fs EXCEPT !.data[File2] = r2.loaded]
             p == process_file(believed, File2, DataTypeOf(File2),
                               IF actual = NoFile THEN [io EXCEPT !.move = FALSE]
                               ELSE io,
                               now)
             moved == p.fs.data[File2] = NoFile
         IN /\ env + Faults(io) <= MaxEnv
            /\ env' = env + Faults(io)
            /\ fs' = IF moved /\ At(p.fs.quarantine, << now, File2 >>) = r2.loaded
                     THEN [p.fs EXCEPT !.quarantine =
                              Put(p.fs.quarantine, << now, File2 >>, actual)]
                     ELSE [p.fs EXCEPT !.data[File2] = actual]
            /\ r2' = Advance2(p.result)
    /\ UNCHANGED << clock, pc, idx, results, total_records, summary_doc, runs,
                    found, vin, vout, prev, shown >>

\* A second runner that writes the summary of the first.
Summary2OfFirst(now) ==
    [kind              |-> "json",
     timestamp         |-> now,
     files_processed   |-> Cardinality({ f \in FileNames :
                                           results[f].status = "success" }),
     records_processed |-> total_records,
     results           |-> results]

\* The summary the second runner builds.
Summary2(now) ==
    [kind              |-> "json",
     timestamp         |-> now,
     files_processed   |-> Cardinality({ f \in FileNames :
                                           r2.results[f].status = "success" }),
     records_processed |-> r2.total_records,
     results           |-> r2.results]

\* The end of the second runner's run_pipeline: the same file
\* logs/pipeline_summary.json.
WriteSummary2 ==
    /\ r2.pc = "summary"
    /\ \E w \in WriteOutcomes, now \in Now :
         CASE w = "ok" ->
                /\ summary_doc' = Summary2(now)
                /\ UNCHANGED env
           [] w = "truncated" ->
                /\ env < MaxEnv
                /\ summary_doc' = Truncated
                /\ env' = env + 1
           [] w = "fail" ->
                /\ env < MaxEnv
                /\ UNCHANGED summary_doc
                /\ env' = env + 1
    /\ r2' = [r2 EXCEPT !.pc = "idle"]
    /\ UNCHANGED << fs, clock, pc, idx, results, total_records, runs, found,
                    vin, vout, prev, shown >>

\* data_dir when the two runners start: one file that is accepted, one
\* that fails validation, one that cannot be loaded.
InitTwoRunners ==
    /\ Init
    /\ fs.data["stores.csv"].kind = "csv"
    /\ fs.data["daily_sales.csv"].rows[2]["total_sales"] = "-500"
    /\ fs.data["inventory_snapshots.csv"] = Unparseable
    /\ "discount_pct" \in fs.data["promotions.csv"].cols

\* A run of the first runner: its only one when the second runner runs.
StartRun1 == StartRun /\ (runs = r2.runs \/ r2.runs = 0)

NextTwoRunners ==
    \/ StartRun1
    \/ LoopBody
    \/ WriteSummary
    \/ Supply
    \/ StartRun2
    \/ Load2
    \/ Act2
    \/ WriteSummary2

SpecTwoRunners == InitTwoRunners /\ [][NextTwoRunners]_vars

\* ------------------------------------------------------------- validators on their own
\* The rows of a dataset with columns cols: up to MaxRows rows, the cells
\* of the columns in varied drawn from cells, every other cell "1".
Rows(cols, varied, cells) ==
    UNION { [1 .. n -> { r \in [cols -> cells \cup { "1" }] :
                          \A c \in cols : c \notin varied => r[c] = "1" }] :
            n \in 0 .. MaxRows }

PromotionsColumns ==
    { "promotion_id", "store_id", "start_date", "end_date", "discount_pct",
      "promotion_type" }

SalesColumns == { "date", "store_id", "total_sales" }

\* The column sets of the sales datasets: with and without total_sales and
\* the optional transaction_count, and with a required column missing.
SalesColumnSets ==
    { SalesColumns \cup { "transaction_count" },
      { "date", "store_id", "transaction_count" },
      { "store_id", "total_sales" },
      { "date", "store_id" } }

\* total_sales = [1000, -500, 2000].
ScenarioB ==
    Csv(SalesColumns,
        << [c \in SalesColumns |-> IF c = "total_sales" THEN "1000" ELSE "1"],
           [c \in SalesColumns |-> IF c = "total_sales" THEN "-500" ELSE "1"],
           [c \in SalesColumns |-> IF c = "total_sales" THEN "2000" ELSE "1"] >>)

\* The column sets of the stores and inventory datasets: complete, and
\* with required columns missing.
OtherColumnSets(data_type) ==
    CASE data_type = "stores" ->
            { { "store_id", "store_name", "region" }, { "store_id", "region" },
              { "store_id" } }
      [] data_type = "inventory" ->
            { { "date", "store_id" }, { "store_id" }, { "product_id" } }

\* The datasets the validators are called on: promotions with and without
\* discount_pct and with other required columns missing, sales with and
\* without total_sales and transaction_count, stores and inventory.
ValidationInputs ==
    { [data_type |-> "promotions", file |-> Csv(PromotionsColumns, rows)] :
        rows \in Rows(PromotionsColumns, { "discount_pct" },
                      { "0", "0.3", "1", "1.5", "-0.2", "abc", EmptyCell }) }
    \cup
    { [data_type |-> "promotions",
       file |-> Csv((PromotionsColumns \ { "discount_pct" })
                        \cup { "discount_percent" }, rows)] :
        rows \in Rows((PromotionsColumns \ { "discount_pct" })
                          \cup { "discount_percent" },
                      { "discount_percent" }, { "0.3" }) }
    \cup
    UNION { { [data_type |-> "promotions", file |-> Csv(cols, rows)] :
                rows \in Rows(cols, { "discount_pct" }, { "0.3", "1.5" }) } :
            cols \in { PromotionsColumns \ { "promotion_id" },
                       PromotionsColumns \ { "discount_pct", "end_date" },
                       { "discount_pct" } } }
    \cup
    { [data_type |-> "sales", file |-> Csv(SalesColumns, rows)] :
        rows \in Rows(SalesColumns, { "total_sales" },
                      { "1000", "-500", "2000", "0", "abc", EmptyCell }) }
    \cup
    UNION { { [data_type |-> "sales", file |-> Csv(cols, rows)] :
                rows \in Rows(cols, { "total_sales", "transaction_count" },
                              { "1000", "-500", "abc", EmptyCell }) } :
            cols \in SalesColumnSets }
    \cup
    { [data_type |-> "sales", file |-> ScenarioB] }
    \cup
    UNION { UNION { { [data_type |-> t, file |-> Csv(cols, rows)] :
                        rows \in Rows(cols, { "store_id" }, { "abc", EmptyCell }) } :
                    cols \in OtherColumnSets(t) } :
            t \in { "stores", "inventory" } }

\* The state before a validator call on a dataset of ValidationInputs.
ValidateInit ==
    /\ fs = [data       |-> [f \in FileNames |-> NoFile],
             validated  |-> [f \in FileNames |-> NoFile],
             quarantine |-> EmptyDir,
             sidecars   |-> EmptyDir]
    /\ clock = 0
    /\ pc = "idle"
    /\ idx = 1
    /\ results = [f \in FileNames |-> NoResult]
    /\ total_records = 0
    /\ summary_doc = NoFile
    /\ runs = 0
    /\ env = 0
    /\ found = NoFile
    /\ vin \in ValidationInputs
    /\ vout = NoVerdict
    /\ prev = NoPrev
    /\ r2 = NoRunner
    /\ shown = NotShown

\* The validator process_file uses and DataContract(data_type).validate,
\* both called on the frame read from vin.
CallValidators ==
    /\ ~vout.done
    /\ vout' = [done     |-> TRUE,
                pipeline |-> Validate(vin.data_type, ReadCsv(vin.file)),
                contract |-> ContractValidate(vin.data_type, ReadCsv(vin.file))]
    /\ UNCHANGED << fs, clock, pc, idx, results, total_records, summary_doc,
                    runs, env, found, vin, prev, r2, shown >>

ValidateNext == CallValidators

SpecValidate == ValidateInit /\ [][ValidateNext]_vars

\* ------------------------------------------------------------- dashboard
\* check_pipeline_status(): the parsed logs/pipeline_summary.json, or None
\* when the file is absent or json.load raises.
None == [kind |-> "None"]

check_pipeline_status(doc) == IF doc.kind = "json" THEN doc ELSE None

\* A metric that adds up the 'records' of every result.
PipelineMetricReadsRecords(pipeline_status) ==
    IF pipeline_status = None
    THEN [raised |-> FALSE, value |-> "Not run", files_ok |-> 0]
    ELSE IF \E f \in DOMAIN pipeline_status.results :
               "records" \notin DOMAIN pipeline_status.results[f]
    THEN [raised |-> TRUE, value |-> "KeyError", files_ok |-> 0]
    ELSE [raised   |-> FALSE,
          value    |-> "{files_ok}/4 files",
          files_ok |-> Cardinality({ f \in DOMAIN pipeline_status.results :
                            pipeline_status.results[f].status = "success" })]

\* The 'Pipeline' metric of main(): "Not run" without a status, else
\* "{files_ok}/4 files" with files_ok the number of results whose status is
\* 'success'.  Reading a key that is not there raises KeyError.
PipelineMetric(pipeline_status) ==
    IF pipeline_status = None
    THEN [raised |-> FALSE, value |-> "Not run", files_ok |-> 0]
    ELSE IF \/ "results" \notin DOMAIN pipeline_status
            \/ \E f \in DOMAIN pipeline_status.results :
                  "status" \notin DOMAIN pipeline_status.results[f]
    THEN [raised |-> TRUE, value |-> "KeyError", files_ok |-> 0]
    ELSE [raised   |-> FALSE,
          value    |-> "{files_ok}/4 files",
          files_ok |-> Cardinality({ f \in DOMAIN pipeline_status.results :
                            pipeline_status.results[f].status = "success" })]

\* The results a summary document can hold for a file: those of
\* process_file and run_pipeline, and those of run.py's
\* run_simple_pipeline.
SummaryResults(filename) ==
    { [status |-> "success", records |-> n,
       validated_path |-> ValidatedPath(filename)] : n \in { 0, 2 } }
    \cup { [status |-> "success", records |-> 2],
           [status |-> "failed", reason |-> "validation_failed",
            errors |-> << PipelineDriftMsg >>,
            quarantine_path |-> QuarantinePath(0, filename)],
           [status |-> "failed",
            reason |-> "SCHEMA DRIFT: discount_pct column not found"],
           [status |-> "error", reason |-> "ParserError",
            quarantine_path |-> InputPath(filename)],
           [status |-> "skipped", reason |-> "file_not_found"],
           [status |-> "skipped", reason |-> "File not found"] }

\* What can be at logs/pipeline_summary.json: nothing, a document cut
\* short, or a summary.
SummaryDocs ==
    { NoFile, Truncated }
    \cup { [kind |-> "json", timestamp |-> 0, files_processed |-> 0,
            records_processed |-> 0, results |-> r] :
           r \in { x \in [FileNames -> UNION { SummaryResults(f) : f \in FileNames }] :
                     \A f \in FileNames : x[f] \in SummaryResults(f) } }

\* The state when the dashboard is opened.
DashboardInit ==
    /\ fs = [data       |-> [f \in FileNames |-> NoFile],
             validated  |-> [f \in FileNames |-> NoFile],
             quarantine |-> EmptyDir,
             sidecars   |-> EmptyDir]
    /\ clock = 0
    /\ pc = "idle"
    /\ idx = 1
    /\ results = [f \in FileNames |-> NoResult]
    /\ total_records = 0
    /\ summary_doc \in SummaryDocs
    /\ runs = 0
    /\ env = 0
    /\ found = NoFile
    /\ vin = NoCall
    /\ vout = NoVerdict
    /\ prev = NoPrev
    /\ r2 = NoRunner
    /\ shown = NotShown

\* main() of the dashboard, its pipeline metric.
Render ==
    /\ ~shown.done
    /\ shown' = [done   |-> TRUE,
                 metric |-> PipelineMetric(check_pipeline_status(summary_doc))]
    /\ UNCHANGED << fs, clock, pc, idx, results, total_records, summary_doc,
                    runs, env, found, vin, vout, prev, r2 >>

DashboardNext == Render

SpecDashboard == DashboardInit /\ [][DashboardNext]_vars

\* ------------------------------------------------------------- run.py
\* The loop of run_simple_pipeline from the file at index i on: a file
\* that is there is read and its rows are added to total_records before it
\* is looked at; promotions.csv without discount_pct is 'failed', any other
\* file read is 'success'.  raised tells that pd.read_csv raised.
RECURSIVE SimpleLoop(_, _, _, _)
SimpleLoop(data, i, res, total) ==
    IF i > Len(files_to_process)
    THEN [raised |-> FALSE, results |-> res, total_records |-> total]
    ELSE LET filename == files_to_process[i].filename
             file     == data[filename]
         IN IF file = NoFile
            THEN SimpleLoop(data, i + 1,
                            [res EXCEPT ![filename] =
                                [status |-> "skipped", reason |-> "File not found"]],
                            total)
            ELSE IF file.kind # "csv"
            THEN [raised |-> TRUE, results |-> res, total_records |-> total]
            ELSE LET df      == ReadCsv(file)
                     records == df.len
                 IN IF filename = "promotions.csv"
                         /\ "discount_pct" \notin df.columns
                    THEN SimpleLoop(data, i + 1,
                            [res EXCEPT ![filename] =
                                [status |-> "failed",
                                 reason |-> "SCHEMA DRIFT: discount_pct column not found"]],
                            total + records)
                    ELSE SimpleLoop(data, i + 1,
                            [res EXCEPT ![filename] =
                                [status |-> "success", records |-> records]],
                            total + records)

\* The summary run_simple_pipeline builds from what its loop left.
SimpleSummary(r, now) ==
    [kind              |-> "json",
     timestamp         |-> now,
     files_processed   |-> Cardinality({ f \in FileNames :
                                           r.results[f].status = "success" }),
     records_processed |-> r.total_records,
     results           |-> r.results]

\* The data directory run.py's pipeline starts on: each input file one of
\* its contents, or absent.
SimpleInit ==
    /\ \E d \in { x \in [FileNames -> UNION { Inputs(t) : t \in DataTypes }
                                       \cup { NoFile }] :
                    \A f \in FileNames :
                        x[f] \in Inputs(DataTypeOf(f)) \cup { NoFile } } :
         fs = [data       |-> d,
               validated  |-> [f \in FileNames |-> NoFile],
               quarantine |-> EmptyDir,
               sidecars   |-> EmptyDir]
    /\ clock = 0
    /\ pc = "idle"
    /\ idx = 1
    /\ results = [f \in FileNames |-> NoResult]
    /\ total_records = 0
    /\ summary_doc = NoFile
    /\ runs = 0
    /\ env = 0
    /\ found = NoFile
    /\ vin = NoCall
    /\ vout = NoVerdict
    /\ prev = NoPrev
    /\ r2 = NoRunner
    /\ shown = NotShown

\* run_simple_pipeline: the loop, then the summary written to
\* logs/pipeline_summary.json.  An exception anywhere is caught and the
\* function returns False, with what was written so far left in place.
run_simple_pipeline ==
    /\ pc = "idle"
    /\ runs = 0
    /\ runs' = 1
    /\ LET r == SimpleLoop(fs.data, 1, [f \in FileNames |-> NoResult], 0)
       IN IF r.raised
          THEN UNCHANGED << results, total_records, summary_doc, env >>
          ELSE /\ results' = r.results
               /\ total_records' = r.total_records
               /\ \E w \in WriteOutcomes :
                    CASE w = "ok" ->
                           /\ summary_doc' = SimpleSummary(r, clock)
                           /\ UNCHANGED env
                      [] w = "truncated" ->
                           /\ env < MaxEnv
                           /\ summary_doc' = Truncated
                           /\ env' = env + 1
                      [] w = "fail" ->
                           /\ env < MaxEnv
                           /\ UNCHANGED summary_doc
                           /\ env' = env + 1
    /\ UNCHANGED << fs, clock, pc, idx, found, vin, vout, prev, r2, shown >>

SimpleNext == run_simple_pipeline

SpecSimple == SimpleInit /\ [][SimpleNext]_vars

\* ------------------------------------------------------------- views
\* The file the loop is at.
CurFile == files_to_process[idx].filename

\* A step of the loop body, and a step of it that called process_file on
\* CurFile.
LoopStep == pc = "loop" /\ (idx' # idx \/ pc' # pc)

ProcessStep ==
    pc = "loop" /\ results'[CurFile].status \in { "success", "failed", "error" }

\* process_file ended in its failure or error path, which calls
\* quarantine_file.
Rejected(r) == r.status \in { "failed", "error" }

\* The name in data/quarantine a reported path stands for.
QKey(path) == << path.ts, path.name >>

\* A run is over: the loop is done.
RunOver == pc = "summary" \/ (pc = "idle" /\ runs > 0)

\* The sum of the 'records' of the success entries of res among files.
RECURSIVE SuccessRecords(_, _)
SuccessRecords(res, files) ==
    IF files = {} THEN 0
    ELSE LET f == CHOOSE x \in files : TRUE
         IN (IF res[f].status = "success" THEN res[f].records ELSE 0)
            + SuccessRecords(res, files \ { f })

SuccessCount(res, files) ==
    Cardinality({ f \in files : res[f].status = "success" })

\* ------------------------------------------------------------- C1
\* C1 as claimed: after every process_file call, a 'failed' or 'error'
\* result has its file at the returned quarantine_path inside the
\* quarantine directory and a sidecar beside it, and a 'success' result has
\* its validated copy and the call created no quarantine file and no
\* sidecar.  Fails whenever quarantine_file could not move the file.
C1_EveryRejectIsQuarantined ==
    [][ProcessStep =>
        LET r == results'[CurFile]
        IN /\ Rejected(r) =>
                /\ r.quarantine_path.dir = "data/quarantine"
                /\ At(fs'.quarantine, QKey(r.quarantine_path)) # NoFile
                /\ At(fs'.sidecars, QKey(r.quarantine_path)) # NoFile
           /\ r.status = "success" =>
                /\ r.validated_path = ValidatedPath(CurFile)
                /\ fs'.validated[CurFile].kind = "validated"
                /\ fs'.quarantine = fs.quarantine
                /\ fs'.sidecars = fs.sidecars]_vars

\* C1 amended: the same, for the 'failed' and 'error' results whose
\* quarantine_path is not the original filepath (quarantine_file returns the
\* original filepath when it could not finish).
C1_RejectWithQuarantinePath ==
    [][ProcessStep =>
        LET r == results'[CurFile]
        IN /\ (Rejected(r) /\ r.quarantine_path # InputPath(CurFile)) =>
                /\ r.quarantine_path.dir = "data/quarantine"
                /\ At(fs'.quarantine, QKey(r.quarantine_path)) # NoFile
                /\ At(fs'.sidecars, QKey(r.quarantine_path)) # NoFile
           /\ r.status = "success" =>
                /\ r.validated_path = ValidatedPath(CurFile)
                /\ fs'.validated[CurFile].kind = "validated"
                /\ fs'.quarantine = fs.quarantine
                /\ fs'.sidecars = fs.sidecars]_vars

\* A run in which one file was rejected and quarantined with its sidecar
\* and another was accepted and has its validated copy.
C1_Witness ==
    /\ \E f \in FileNames :
         /\ results[f].status = "failed"
         /\ results[f].quarantine_path.dir = "data/quarantine"
         /\ At(fs.quarantine, QKey(results[f].quarantine_path)) # NoFile
         /\ At(fs.sidecars, QKey(results[f].quarantine_path)).kind = "json"
    /\ \E g \in FileNames :
         /\ results[g].status = "success"
         /\ fs.validated[g].kind = "validated"

\* ------------------------------------------------------------- C2
\* C2: in every summary run_pipeline writes and returns, files_processed is
\* the number of 'success' entries of results and records_processed is the
\* sum of the 'records' of exactly those entries.
C2_SummaryCounts ==
    summary_doc.kind = "json" =>
        /\ summary_doc.files_processed
             = SuccessCount(summary_doc.results, FileNames)
        /\ summary_doc.records_processed
             = SuccessRecords(summary_doc.results, FileNames)

\* A summary of a second run with two accepted files, records counted and
\* a file that was not accepted.
C2_Witness ==
    /\ summary_doc.kind = "json"
    /\ runs = MaxRuns
    /\ pc = "idle"
    /\ summary_doc.results = results
    /\ summary_doc.files_processed >= 2
    /\ summary_doc.records_processed >= 3
    /\ \E f \in FileNames : summary_doc.results[f].status \notin { "success" }

\* ------------------------------------------------------------- C3
\* C3: every step of the loop goes on to the next configured file whatever
\* the result of the file at hand, and leaves the other files' results
\* alone; the result process_file gives a file is one it gives that file on
\* a file system that holds nothing else; and when the loop is done every
\* configured filename has a result with one of the four statuses.
C3_Isolation ==
    /\ [](RunOver =>
            \A f \in FileNames :
                results[f].status \in { "success", "failed", "error", "skipped" })
    /\ [][LoopStep =>
            /\ IF idx < 4 THEN pc' = "loop" /\ idx' = idx + 1
                          ELSE pc' = "summary"
            /\ \A g \in FileNames \ { CurFile } : results'[g] = results[g]
            /\ ProcessStep =>
                 \E io \in IO :
                    results'[CurFile] =
                        process_file([data       |-> [g \in FileNames |->
                                                        IF g = CurFile THEN found'
                                                        ELSE NoFile],
                                      validated  |-> [g \in FileNames |-> NoFile],
                                      quarantine |-> EmptyDir,
                                      sidecars   |-> EmptyDir],
                                     CurFile, DataTypeOf(CurFile), io, clock').result
          ]_vars

\* A finished run in which the second file failed validation, the third
\* raised while loading and the fourth was accepted all the same.
C3_Witness ==
    /\ pc = "idle"
    /\ runs > 0
    /\ results["daily_sales.csv"].status = "failed"
    /\ results["inventory_snapshots.csv"].status = "error"
    /\ results["promotions.csv"].status = "success"

\* ------------------------------------------------------------- C4
\* A promotions file that has discount_percent in place of discount_pct.
Drifted(file) ==
    /\ file.kind = "csv"
    /\ "discount_percent" \in file.cols
    /\ "discount_pct" \notin file.cols

Contains(seq, x) == \E i \in DOMAIN seq : seq[i] = x

IsSidecar(doc, filename, quarantine_path) ==
    /\ doc.kind = "json"
    /\ doc.original_path = InputPath(filename)
    /\ doc.quarantine_path = quarantine_path
    /\ doc.timestamp = quarantine_path.ts
    /\ Len(doc.errors) > 0

\* C5 as claimed: after a quarantine_file call either the file left
\* filepath, is at the quarantine path with its sidecar and the quarantine
\* path is returned, or nothing was relocated, the file is where the call
\* found it, no sidecar was written and filepath is returned.
C5_MoveAndSidecarPaired ==
    [][(ProcessStep /\ Rejected(results'[CurFile])) =>
        LET path == results'[CurFile].quarantine_path
            q    == << clock', CurFile >>
        IN \/ /\ found' # NoFile
              /\ fs'.data[CurFile] = NoFile
              /\ At(fs'.quarantine, q) = found'
              /\ IsSidecar(At(fs'.sidecars, q), CurFile, QuarantinePath(clock', CurFile))
              /\ path = QuarantinePath(clock', CurFile)
           \/ /\ fs'.data[CurFile] = found'
              /\ fs'.quarantine = fs.quarantine
              /\ fs'.sidecars = fs.sidecars
              /\ path = InputPath(CurFile)]_vars

\* ------------------------------------------------------------- C6
\* C6: when quarantine_file could not create the directory or relocate the
\* file (the file is still where process_file found it, or as absent as it
\* found it), it returns the original filepath, nothing was added to the
\* quarantine directory, and the loop goes on to the next file.
C6_QuarantineBestEffort ==
    [][(ProcessStep /\ Rejected(results'[CurFile]) /\ fs'.data[CurFile] = found') =>
        /\ results'[CurFile].quarantine_path = InputPath(CurFile)
        /\ fs'.quarantine = fs.quarantine
        /\ fs'.sidecars = fs.sidecars
        /\ IF idx < 4 THEN pc' = "loop" /\ idx' = idx + 1
                      ELSE pc' = "summary"]_vars

\* A finished run, summary written, in which a file that failed validation
\* could not be moved: it is still in data_dir and its result carries the
\* original path.
C6_Witness ==
    /\ pc = "idle"
    /\ summary_doc.kind = "json"
    /\ summary_doc.results = results
    /\ \E f \in FileNames :
         /\ results[f].status = "failed"
         /\ results[f].quarantine_path = InputPath(f)
         /\ fs.data[f] # NoFile
         /\ \E g \in FileNames : g # f /\ results[g].status = "success"

\* ------------------------------------------------------------- C7
\* C7 as claimed: a process_file call either quarantines (relocation and
\* sidecar) or writes a validated copy, never both; on 'success' the file
\* at filepath is there with the content it had; the file leaves filepath
\* only when the result is 'failed' or 'error'.
C7_OneKindOfSideEffect ==
    [][ProcessStep =>
        LET r == results'[CurFile]
            quarantined == \/ fs'.quarantine # fs.quarantine
                           \/ fs'.sidecars # fs.sidecars
                           \/ fs'.data[CurFile] # found'
            copied == fs'.validated # fs.validated
        IN /\ ~(quarantined /\ copied)
           /\ r.status = "success" =>
                /\ fs'.data[CurFile] = found'
                /\ found' # NoFile
           /\ fs'.data[CurFile] # found' => Rejected(r)]_vars

\* ------------------------------------------------------------- C8
\* What pd.read_csv or the validator raises on what process_file found at
\* filepath: "" when neither raises.
Raises(data_type, file) ==
    CASE file = NoFile     -> "FileNotFoundError"
      [] file.kind # "csv" -> "ParserError"
      [] OTHER             -> Validate(data_type, ReadCsv(file)).exc

\* C8: every process_file call returns a result.  When loading or
\* validating raises, and when the write of the validated copy raises, the
\* result is 'error' with the exception text as reason; and the sidecar of
\* an 'error' result holds that text as its only error.
C8_ExceptionsBecomeErrorResults ==
    [][(pc = "loop" /\ fs.data[CurFile] # NoFile /\ LoopStep) =>
        LET r   == results'[CurFile]
            exc == Raises(DataTypeOf(CurFile), found')
        IN /\ ProcessStep
           /\ exc # "" => (r.status = "error" /\ r.reason = exc)
           /\ (fs'.validated[CurFile] = Truncated
                 /\ fs.validated[CurFile] # Truncated) =>
                (r.status = "error" /\ r.reason = "OSError")
           /\ r.status = "error" =>
                /\ r.reason \in { "FileNotFoundError", "ParserError",
                                   TypeErrorText, "OSError" }
                /\ r.quarantine_path # InputPath(CurFile) =>
                     At(fs'.sidecars, QKey(r.quarantine_path)).errors
                        = << Msg(r.reason) >>]_vars

\* An unparseable file ended as 'error', quarantined, its sidecar holding
\* the exception text as the only error.
C8_Witness ==
    \E f \in FileNames :
        /\ results[f].status = "error"
        /\ results[f].reason = "ParserError"
        /\ results[f].quarantine_path.dir = "data/quarantine"
        /\ At(fs.sidecars, QKey(results[f].quarantine_path)).kind = "json"
        /\ At(fs.sidecars, QKey(results[f].quarantine_path)).errors
             = << Msg("ParserError") >>

\* ------------------------------------------------------------- C9
\* C9: a configured file that is not under data_dir when the loop checks it
\* gets exactly {status: skipped, reason: file_not_found}; no file is
\* created or moved and total_records stays; and in every summary written
\* both counts are what the other configured files alone give.
C9_SkippedFileNotFound ==
    /\ [][(pc = "loop" /\ fs.data[CurFile] = NoFile /\ LoopStep) =>
            /\ results'[CurFile] =
                    [status |-> "skipped", reason |-> "file_not_found"]
            /\ fs' = fs
            /\ total_records' = total_records]_vars
    /\ [](summary_doc.kind = "json" =>
            \A f \in FileNames :
                summary_doc.results[f].status = "skipped" =>
                    /\ summary_doc.files_processed
                         = SuccessCount(summary_doc.results, FileNames \ { f })
                    /\ summary_doc.records_processed
                         = SuccessRecords(summary_doc.results, FileNames \ { f }))

\* A summary with a skipped file and accepted files whose records it
\* counts.
C9_Witness ==
    /\ summary_doc.kind = "json"
    /\ summary_doc.results = results
    /\ pc = "idle"
    /\ results["stores.csv"] = [status |-> "skipped", reason |-> "file_not_found"]
    /\ summary_doc.files_processed >= 2
    /\ summary_doc.records_processed >= 3

\* ------------------------------------------------------------- C10
\* The cells of discount_pct that are numbers outside [0, 1].
OutOfRange(file) ==
    { i \in DOMAIN file.rows :
        /\ file.rows[i]["discount_pct"] \in NumericCells
        /\ \/ CellNumber(file.rows[i]["discount_pct"]) < 0
           \/ CellNumber(file.rows[i]["discount_pct"]) > 100 }

\* C10 as claimed: on a promotions dataset that has discount_pct,
\* validate_promotions counts in its 'invalid discount values' message the
\* numbers outside [0, 1] and nothing else, so a dataset whose values are
\* within [0, 1] or not numbers is valid.  Fails on a cell that is empty or
\* no number: it becomes NaN and between(0, 1) is False for it.
C10_OnlyNumbersOutOfRangeCounted ==
    (vout.done /\ vin.data_type = "promotions"
        /\ "discount_pct" \in vin.file.cols) =>
        LET n == Cardinality(OutOfRange(vin.file))
        IN /\ vout.pipeline.is_valid = (n = 0)
           /\ vout.pipeline.errors =
                IF n > 0
                THEN << CountMsg("Found {n} invalid discount values (not between 0-1)", n) >>
                ELSE << >>

\* ------------------------------------------------------------- C11
\* The rows of file whose cell in column col is a number below zero (none
\* when file has no such column), and whether the column holds text.
NegativeRows(file, col) ==
    IF col \notin file.cols THEN {}
    ELSE { i \in DOMAIN file.rows :
             /\ file.rows[i][col] \in NumericCells
             /\ CellNumber(file.rows[i][col]) < 0 }

HasText(file, col) ==
    /\ col \in file.cols
    /\ \E i \in DOMAIN file.rows : file.rows[i][col] \in TextCells

\* The messages C11 describes for a sales dataset.
SalesMessages(file) ==
    LET n == Cardinality(NegativeRows(file, "total_sales"))
        m == Cardinality(NegativeRows(file, "transaction_count"))
    IN (IF n > 0
        THEN << CountMsg("Found {n} records with negative sales", n) >>
        ELSE << >>)
       \o (IF m > 0
           THEN << CountMsg("Found {n} records with negative transaction count", m) >>
           ELSE << >>)

\* C11 as claimed: for every sales dataset validate_sales returns the
\* negative-sales message exactly when n > 0 rows have total_sales < 0, the
\* negative-transaction-count message exactly when m > 0 rows have
\* transaction_count < 0, nothing for an absent column, and is_valid exactly
\* when there is no message.  Fails on a column that holds text: the
\* comparison raises and validate_sales returns nothing.
C11_SalesCountsEveryDataset ==
    (vout.done /\ vin.data_type = "sales") =>
        /\ ~vout.pipeline.raised
        /\ vout.pipeline.errors = SalesMessages(vin.file)
        /\ vout.pipeline.is_valid = (SalesMessages(vin.file) = << >>)

\* C11 amended: the same for every sales dataset whose total_sales and
\* transaction_count hold numbers and empty cells only, total_sales =
\* [1000, -500, 2000] giving (false, ['Found 1 records with negative
\* sales']); on a column that holds text validate_sales raises TypeError.
C11_SalesCountsNumericColumns ==
    (vout.done /\ vin.data_type = "sales") =>
        /\ IF HasText(vin.file, "total_sales")
                \/ HasText(vin.file, "transaction_count")
           THEN vout.pipeline.raised /\ vout.pipeline.exc = TypeErrorText
           ELSE /\ ~vout.pipeline.raised
                /\ vout.pipeline.errors = SalesMessages(vin.file)
                /\ vout.pipeline.is_valid = (SalesMessages(vin.file) = << >>)
        /\ vin.file = ScenarioB =>
             /\ ~vout.pipeline.is_valid
             /\ vout.pipeline.errors =
                  << CountMsg("Found {n} records with negative sales", 1) >>

\* validate_sales returned for total_sales = [1000, -500, 2000].
C11_Witness ==
    /\ vout.done
    /\ vin.data_type = "sales"
    /\ vin.file = ScenarioB
    /\ ~vout.pipeline.raised
    /\ Len(vout.pipeline.errors) = 1

\* ------------------------------------------------------------- C12
\* C12: DataContract('promotions').validate on a dataset without
\* discount_pct is not valid, its first error is the 'Missing required
\* columns' message listing exactly the required columns the dataset lacks,
\* and its second is the 'SCHEMA DRIFT DETECTED' message; for every other
\* data type, and when discount_pct is present, that message is not among
\* the errors.
C12_ContractDriftMessage ==
    vout.done =>
        LET errors == vout.contract.errors
        IN IF vin.data_type = "promotions" /\ "discount_pct" \notin vin.file.cols
           THEN /\ ~vout.contract.is_valid
                /\ Len(errors) >= 2
                /\ errors[1].text = "Missing required columns: {missing_columns}"
                /\ { errors[1].cols[i] : i \in DOMAIN errors[1].cols }
                     = PromotionsColumns \ vin.file.cols
                /\ Len(errors[1].cols)
                     = Cardinality(PromotionsColumns \ vin.file.cols)
                /\ errors[2] = ContractDriftMsg
                /\ \A i \in DOMAIN errors : i # 2 => errors[i] # ContractDriftMsg
           ELSE ~Contains(errors, ContractDriftMsg)

\* The contract was called on a promotions dataset that lacks discount_pct
\* and end_date, and returned the two messages.
C12_Witness ==
    /\ vout.done
    /\ vin.data_type = "promotions"
    /\ vin.file.cols = PromotionsColumns \ { "discount_pct", "end_date" }
    /\ vout.contract.errors =
         << ColsMsg("Missing required columns: {missing_columns}",
                    << "end_date", "discount_pct" >>),
            ContractDriftMsg >>

\* ------------------------------------------------------------- C13
\* C13: a file that was accepted in the run before and is the same file
\* now is, when no file-system call fails, accepted again with the same
\* record count, and the validated copy written has the rows of the copy
\* the run before left (the two stamps apart); every accepted file is left
\* at its path as it was; what is read is the input file.
C13_SecondRunSameRows ==
    /\ [][(LoopStep /\ runs > 1
             /\ prev.results[CurFile].status = "success"
             /\ fs.data[CurFile] = prev.data[CurFile]
             /\ env' = env) =>
            /\ ProcessStep
            /\ found' = prev.data[CurFile]
            /\ results'[CurFile].status = "success"
            /\ results'[CurFile].records = prev.results[CurFile].records
            /\ fs.validated[CurFile].kind = "validated"
            /\ fs'.validated[CurFile].kind = "validated"
            /\ fs'.validated[CurFile].df = fs.validated[CurFile].df
            /\ fs'.data[CurFile] = prev.data[CurFile]]_vars
    /\ [][(ProcessStep /\ results'[CurFile].status = "success") =>
            /\ fs'.data = fs.data
            /\ found' = fs.data[CurFile]
            /\ results'[CurFile].records = Len(fs.data[CurFile].rows)]_vars

\* The end of a second run, a second later, in which all four files were
\* accepted with the results of the first run.
C13_Witness ==
    /\ runs = 2
    /\ pc = "summary"
    /\ \A f \in FileNames :
         /\ results[f].status = "success"
         /\ results[f] = prev.results[f]
         /\ fs.data[f] = prev.data[f]
         /\ fs.validated[f].kind = "validated"
         /\ fs.validated[f].ingested_at = 1

\* ------------------------------------------------------------- C14
\* C14 as claimed: once a file is in data/quarantine, it and its sidecar
\* stay as they were written, whatever quarantine_file calls follow, in the
\* same run, in a later run, in the same second.  Fails when the same
\* filename is supplied again and quarantined again within the second: the
\* path is the same, and shutil.move and open(..., 'w') replace what is
\* there.
C14_QuarantineEntriesWrittenOnce ==
    [][/\ \A q \in DOMAIN fs.quarantine :
            /\ q \in DOMAIN fs'.quarantine
            /\ fs'.quarantine[q] = fs.quarantine[q]
       /\ \A q \in DOMAIN fs.sidecars :
            /\ q \in DOMAIN fs'.sidecars
            /\ fs'.sidecars[q] = fs.sidecars[q]]_vars

\* ------------------------------------------------------------- C15
\* The entries of data/quarantine a step replaces: a quarantined file or a
\* sidecar that was there and is not what it was.
Overwritten ==
    { q \in DOMAIN fs.quarantine : At(fs'.quarantine, q) # fs.quarantine[q] }
    \cup { q \in DOMAIN fs.sidecars : At(fs'.sidecars, q) # fs.sidecars[q] }

StatusOnly(doc) ==
    [doc EXCEPT !.results =
        [f \in DOMAIN doc.results |-> [status |-> doc.results[f].status]]]

\* C16: the metric is "Not run" when logs/pipeline_summary.json is absent
\* or does not parse; for a summary that parses the metric is rendered,
\* counts the 'success' results, and is the metric of the same document
\* with nothing but the status left in each result.
C16_DashboardMetric ==
    shown.done =>
        IF summary_doc.kind # "json"
        THEN shown.metric = [raised |-> FALSE, value |-> "Not run", files_ok |-> 0]
        ELSE /\ ~shown.metric.raised
             /\ shown.metric.value = "{files_ok}/4 files"
             /\ shown.metric.files_ok
                  = SuccessCount(summary_doc.results, FileNames)
             /\ shown.metric
                  = PipelineMetric(check_pipeline_status(StatusOnly(summary_doc)))

\* The dashboard rendered a summary that has a 'failed' result with a
\* reason and nothing else, an 'error', a 'skipped' and one 'success'.
C16_Witness ==
    /\ shown.done
    /\ summary_doc.kind = "json"
    /\ summary_doc.results["promotions.csv"] =
         [status |-> "failed",
          reason |-> "SCHEMA DRIFT: discount_pct column not found"]
    /\ summary_doc.results["inventory_snapshots.csv"].status = "error"
    /\ summary_doc.results["daily_sales.csv"].status = "skipped"
    /\ summary_doc.results["stores.csv"].status = "success"
    /\ shown.metric.files_ok = 1

\* ------------------------------------------------------------- C17
\* The required columns of its data type that a file lacks.
Lacks(filename, file) ==
    MissingColumns(RequiredColumns(DataTypeOf(filename)), file.cols)

\* C17: every process_file call on a parseable stores.csv or
\* inventory_snapshots.csv that lacks a required column of its data type
\* ends 'failed' with reason 'validation_failed', and never 'success'; one
\* that has them all is never 'failed'.  Fails: process_file runs no
\* validator for these data types.
C17_StoresInventoryColumnsChecked ==
    [][(ProcessStep
          /\ DataTypeOf(CurFile) \in { "stores", "inventory" }
          /\ found'.kind = "csv") =>
        LET r == results'[CurFile]
        IN IF Lacks(CurFile, found') # << >>
           THEN /\ r.status = "failed"
                /\ r.reason = "validation_failed"
           ELSE r.status # "failed"]_vars

\* ------------------------------------------------------------- C18
\* C18: on every sales and promotions dataset, validate_sales /
\* validate_promotions returns is_valid = True exactly when
\* DataContract(data_type).validate returns is_valid = True.  Fails: the
\* validators of process_file check no required column but discount_pct,
\* and validate_sales lets a missing total_sales pass that the contract's
\* rule counts as a violation.
C18_ValidatorAgreesWithContract ==
    (vout.done /\ vin.data_type \in { "sales", "promotions" }) =>
        ((~vout.pipeline.raised /\ vout.pipeline.is_valid)
            <=> vout.contract.is_valid)

\* ------------------------------------------------------------- C19
\* C19: in every summary run.py's run_simple_pipeline writes,
\* files_processed is the number of 'success' results and
\* records_processed is the sum of the record counts of the 'success'
\* results, the rows of a 'failed' promotions.csv left out.  Fails: the
\* rows are added to total_records before the file is looked at.
C19_SimpleSummaryCounts ==
    (runs = 1 /\ summary_doc.kind = "json") =>
        /\ summary_doc.results = results
        /\ summary_doc.files_processed = SuccessCount(results, FileNames)
        /\ summary_doc.records_processed = SuccessRecords(results, FileNames)

\* ------------------------------------------------------------- C20
\* The result says the file was moved into data/quarantine.
Relocated(f, r) == Rejected(r) /\ r.quarantine_path # InputPath(f)

\* C20: a file that ended 'failed' or 'error' with a quarantine path in
\* one run is gone from data_dir when the run ends; in the next run a file
\* that was relocated or skipped in the run before, and was not supplied
\* again, is recorded {status: skipped, reason: file_not_found} and nothing
\* is touched, which carries the skipping to every later run; and a file
\* that ended 'success' is still under data_dir in the next run and is
\* handed to process_file again.
C20_SuccessiveRuns ==
    /\ [](\A f \in FileNames :
            Relocated(f, prev.results[f]) => prev.data[f] = NoFile)
    /\ [][(LoopStep /\ runs > 1
             /\ fs.data[CurFile] = prev.data[CurFile]
             /\ (\/ Relocated(CurFile, prev.results[CurFile])
                 \/ prev.results[CurFile].status = "skipped")) =>
            /\ results'[CurFile] =
                  [status |-> "skipped", reason |-> "file_not_found"]
            /\ fs' = fs
            /\ total_records' = total_records]_vars
    /\ [][(LoopStep /\ runs > 1
             /\ prev.results[CurFile].status = "success") =>
            /\ fs.data[CurFile] # NoFile
            /\ fs.data[CurFile] = prev.data[CurFile]
            /\ ProcessStep]_vars

\* The end of a second run: promotions.csv was 'failed' and relocated, and
\* inventory_snapshots.csv was 'error' and relocated, in the first run and
\* both are skipped now; stores.csv was accepted then and again now.
C20_Witness ==
    /\ runs = 2
    /\ pc = "summary"
    /\ prev.results["promotions.csv"].status = "failed"
    /\ Relocated("promotions.csv", prev.results["promotions.csv"])
    /\ results["promotions.csv"] =
         [status |-> "skipped", reason |-> "file_not_found"]
    /\ prev.results["inventory_snapshots.csv"].status = "error"
    /\ Relocated("inventory_snapshots.csv",
                 prev.results["inventory_snapshots.csv"])
    /\ results["inventory_snapshots.csv"] =
         [status |-> "skipped", reason |-> "file_not_found"]
    /\ prev.results["stores.csv"].status = "success"
    /\ results["stores.csv"].status = "success"
    /\ fs.data["stores.csv"] # NoFile

====
